---- MODULE Spec2Model ----
(***************************************************************************)
(* Model of tests/e2e/test_package/test_openssl.c: main() runs eleven      *)
(* numbered checks against the OpenSSL library in a fixed order, prints    *)
(* one block per check and returns 0, or returns 1 at the first check      *)
(* that fails.  The library is the environment: every call whose result    *)
(* the program tests answers "ok" or "fail".                               *)
(***************************************************************************)
EXTENDS Integers, Sequences, FiniteSets, TLC

\* ---- bounds -------------------------------------------------------------
\* the bytes RAND_bytes generates are abstracted to one value in 0..MaxByte
MaxByte == 1

\* ---- program constants --------------------------------------------------
Algorithms ==
  <<"SHA256", "SHA512", "AES-256-CBC", "AES-256-GCM", "RSA", "ECDSA", "ECDH", "DH">>

NumAlgorithms == Len(Algorithms)

\* the blocks main() prints, in order; Position is 0-indexed
Order ==
  <<"Info", "Init", "Digest", "Random", "ErrorHandling", "BufferIO",
    "ContextLifecycle", "MemoryManagement", "AlgorithmAvailability",
    "Config", "Cleanup">>

Position(cat) == (CHOOSE k \in 1..Len(Order) : Order[k] = cat) - 1

\* call sites whose answer main() tests
Sites ==
  {"SSL_library_init", "SSL_load_error_strings", "OpenSSL_add_all_algorithms",
   "EVP_sha256", "RAND_bytes", "EVP_MD_CTX_new@5", "BIO_new", "BIO_write",
   "SSL_CTX_new", "EVP_MD_CTX_new@8", "OPENSSL_CONF", "FIPS_mode"}

VARIABLES
  pc,              \* the block main() is about to execute, or "done"
  results,         \* the report so far: block and glyph of each finished block
  exitCode,        \* value returned by main(); -1 while running
  banner,          \* the final "All OpenSSL tests passed" banner was printed
  held,            \* library objects allocated and not yet freed
  calls,           \* library calls made so far by each block, in program order
  detail,          \* text of the block printed last
  i,               \* loop index of the algorithm loop
  available_count, \* counter of the algorithm loop
  algStatus,       \* per-name lines printed by the algorithm loop
  ans,             \* what the library answered at each tested call site
  lookup,          \* what the library answered to the by-name lookups
  run,             \* ordinal of the current execution of the program
  results1,        \* report of the previous execution
  exit1            \* exit code of the previous execution

vars ==
  <<pc, results, exitCode, banner, detail, held, calls, i,
    available_count, algStatus, ans, lookup, run, results1, exit1>>

provider == <<ans, lookup>>
history == <<run, results1, exit1>>
loopVars == <<i, available_count, algStatus>>

\* ---- helpers ------------------------------------------------------------
\* the answers the library may give at a site: free the first time the site
\* is reached, the same as before on a later execution
Answers(site) == IF ans[site] = "unasked" THEN {"ok", "fail"} ELSE {ans[site]}

DigestAnswers(n) ==
  IF lookup[n].digest = "unasked" THEN {"ok", "fail"} ELSE {lookup[n].digest}

CipherAnswers(n) ==
  IF lookup[n].cipher = "unasked" THEN {"ok", "fail"} ELSE {lookup[n].cipher}

\* the calls of block cat, in program order, are added to its log
Call(cat, ops) == [calls EXCEPT ![Position(cat)] = @ \o ops]

NoCalls == [p \in 0..(Len(Order) - 1) |-> <<>>]

Result(cat, st) == [category |-> cat, status |-> st]

\* printf of a success block, control falls through to the next block
Pass(cat, det, next) ==
  /\ results' = Append(results, Result(cat, "Pass"))
  /\ detail' = det
  /\ pc' = next
  /\ UNCHANGED <<exitCode, banner>>

\* mutant: the failure branch jumps to the cleanup block instead of returning
FailThenCleanup(cat, det) ==
  /\ results' = Append(results, Result(cat, "Fail"))
  /\ detail' = det
  /\ pc' = "Cleanup"
  /\ exitCode' = exitCode
  /\ banner' = banner

\* printf of a failure line followed by return 1
Fail(cat, det) ==
  /\ results' = Append(results, Result(cat, "Fail"))
  /\ detail' = det
  /\ pc' = "done"
  /\ exitCode' = 1
  /\ banner' = banner

Init ==
  /\ pc = "Info"
  /\ results = <<>>
  /\ exitCode = -1
  /\ banner = FALSE
  /\ held = {}
  /\ calls = NoCalls
  /\ detail = ""
  /\ i = 0
  /\ available_count = 0
  /\ algStatus = <<>>
  /\ ans = [s \in Sites |-> "unasked"]
  /\ lookup = [n \in 1..NumAlgorithms |-> [digest |-> "unasked", cipher |-> "unasked"]]
  /\ run = 1
  /\ results1 = <<>>
  /\ exit1 = -1

\* ---- Test 1: OpenSSL version ---------------------------------------------
InfoCheck ==
  /\ pc = "Info"
  /\ calls' = Call("Info",
        <<"OpenSSL_version", "OpenSSL_version", "OpenSSL_version",
          "OpenSSL_version", "OpenSSL_version", "OpenSSL_version">>)
  /\ Pass("Info", "Version information retrieved", "Init")
  /\ UNCHANGED <<held, loopVars, provider, history>>

\* ---- Test 2: SSL library initialization ----------------------------------
InitCheck ==
  /\ pc = "Init"
  /\ \E a1 \in Answers("SSL_library_init") :
       IF a1 # "ok"
       THEN /\ calls' = Call("Init", <<"SSL_library_init">>)
            /\ ans' = [ans EXCEPT !["SSL_library_init"] = a1]
            /\ Fail("Init", "SSL_library_init() failed")
       ELSE \E a2 \in Answers("SSL_load_error_strings") :
         IF a2 # "ok"
         THEN /\ calls' = Call("Init",
                   <<"SSL_library_init", "SSL_load_error_strings">>)
              /\ ans' = [ans EXCEPT !["SSL_library_init"] = a1,
                                    !["SSL_load_error_strings"] = a2]
              /\ Fail("Init", "SSL_load_error_strings() failed")
         ELSE \E a3 \in Answers("OpenSSL_add_all_algorithms") :
              /\ calls' = Call("Init",
                   <<"SSL_library_init", "SSL_load_error_strings",
                     "OpenSSL_add_all_algorithms">>)
              /\ ans' = [ans EXCEPT !["SSL_library_init"] = a1,
                                    !["SSL_load_error_strings"] = a2,
                                    !["OpenSSL_add_all_algorithms"] = a3]
              /\ IF a3 # "ok"
                 THEN Fail("Init", "OpenSSL_add_all_algorithms() failed")
                 ELSE Pass("Init", "OpenSSL_add_all_algorithms() successful", "Digest")
  /\ UNCHANGED <<held, loopVars, lookup, history>>

\* ---- Test 3: EVP operations ----------------------------------------------
DigestCheck ==
  /\ pc = "Digest"
  /\ \E md \in Answers("EVP_sha256") :
       /\ ans' = [ans EXCEPT !["EVP_sha256"] = md]
       /\ IF md # "fail"
          THEN /\ calls' = Call("Digest",
                    <<"EVP_sha256", "EVP_MD_size", "EVP_MD_block_size">>)
               /\ Pass("Digest", "SHA-256 digest and block size", "Random")
          ELSE /\ calls' = Call("Digest", <<"EVP_sha256">>)
               /\ Fail("Digest", "EVP_sha256() failed")
  /\ UNCHANGED <<held, loopVars, lookup, history>>

\* ---- Test 4: random number generation ------------------------------------
\* the "Sample bytes: " line; the generated bytes are abstracted to one value
SampleBytes(random_bytes) == "Sample bytes: " \o ToString(random_bytes) \o "..."

\* mutant: the success test of RAND_bytes is inverted
RandomCheckInverted ==
  /\ pc = "Random"
  /\ \E r \in Answers("RAND_bytes") :
       /\ ans' = [ans EXCEPT !["RAND_bytes"] = r]
       /\ calls' = Call("Random", <<"RAND_bytes">>)
       /\ IF r # "ok"
          THEN \E random_bytes \in 0..MaxByte :
                 Pass("Random", SampleBytes(random_bytes), "ErrorHandling")
          ELSE Fail("Random", "RAND_bytes() failed")
  /\ UNCHANGED <<held, loopVars, lookup, history>>

\* mutant: the block also rejects a sample whose first byte is zero
RandomCheckOnBytes ==
  /\ pc = "Random"
  /\ \E r \in Answers("RAND_bytes") :
       /\ ans' = [ans EXCEPT !["RAND_bytes"] = r]
       /\ calls' = Call("Random", <<"RAND_bytes">>)
       /\ IF r = "ok"
          THEN \E random_bytes \in 0..MaxByte :
                 IF random_bytes # 0
                 THEN Pass("Random", SampleBytes(random_bytes), "ErrorHandling")
                 ELSE Fail("Random", "RAND_bytes() failed")
          ELSE Fail("Random", "RAND_bytes() failed")
  /\ UNCHANGED <<held, loopVars, lookup, history>>

RandomCheck ==
  /\ pc = "Random"
  /\ \E r \in Answers("RAND_bytes") :
       /\ ans' = [ans EXCEPT !["RAND_bytes"] = r]
       /\ calls' = Call("Random", <<"RAND_bytes">>)
       /\ IF r = "ok"
          THEN \E random_bytes \in 0..MaxByte :
                 Pass("Random", SampleBytes(random_bytes), "ErrorHandling")
          ELSE Fail("Random", "RAND_bytes() failed")
  /\ UNCHANGED <<held, loopVars, lookup, history>>

\* ---- Test 5: error handling ----------------------------------------------
\* mutant: a null context is reported as a failure, as in Test 8
ErrorHandlingCheckStrict ==
  /\ pc = "ErrorHandling"
  /\ \E ctx \in Answers("EVP_MD_CTX_new@5") :
       /\ ans' = [ans EXCEPT !["EVP_MD_CTX_new@5"] = ctx]
       /\ IF ctx = "fail"
          THEN /\ calls' = Call("ErrorHandling",
                    <<"ERR_load_crypto_strings", "ERR_load_SSL_strings",
                      "EVP_MD_CTX_new">>)
               /\ Fail("ErrorHandling", "EVP_MD_CTX_new() failed")
          ELSE /\ calls' = Call("ErrorHandling",
                    <<"ERR_load_crypto_strings", "ERR_load_SSL_strings",
                      "EVP_MD_CTX_new", "EVP_MD_CTX_free">>)
               /\ Pass("ErrorHandling", "EVP_MD_CTX operations successful", "BufferIO")
  /\ held' = held
  /\ UNCHANGED <<loopVars, lookup, history>>

ErrorHandlingCheck ==
  /\ pc = "ErrorHandling"
  /\ \E ctx \in Answers("EVP_MD_CTX_new@5") :
       /\ ans' = [ans EXCEPT !["EVP_MD_CTX_new@5"] = ctx]
       /\ IF ctx = "fail"
          THEN /\ calls' = Call("ErrorHandling",
                    <<"ERR_load_crypto_strings", "ERR_load_SSL_strings",
                      "EVP_MD_CTX_new">>)
               /\ held' = held
               /\ Pass("ErrorHandling",
                       "Error handling working (EVP_MD_CTX_new failed as expected)",
                       "BufferIO")
          ELSE \* ctx is allocated and freed inside the block
               /\ calls' = Call("ErrorHandling",
                    <<"ERR_load_crypto_strings", "ERR_load_SSL_strings",
                      "EVP_MD_CTX_new", "EVP_MD_CTX_free">>)
               /\ held' = (held \cup {"ctx"}) \ {"ctx"}
               /\ Pass("ErrorHandling", "EVP_MD_CTX operations successful", "BufferIO")
  /\ UNCHANGED <<loopVars, lookup, history>>

\* ---- Test 6: BIO operations ----------------------------------------------
BufferIOCheck ==
  /\ pc = "BufferIO"
  /\ \E bio \in Answers("BIO_new") :
       IF bio # "fail"
       THEN \E written \in Answers("BIO_write") :
              /\ ans' = [ans EXCEPT !["BIO_new"] = bio, !["BIO_write"] = written]
              /\ IF written = "ok"
                 THEN /\ calls' = Call("BufferIO",
                           <<"BIO_s_mem", "BIO_new", "BIO_write", "BIO_free">>)
                      /\ held' = (held \cup {"bio"}) \ {"bio"}
                      /\ Pass("BufferIO", "BIO_free() successful", "ContextLifecycle")
                 ELSE \* return 1 is reached before BIO_free
                      /\ calls' = Call("BufferIO",
                           <<"BIO_s_mem", "BIO_new", "BIO_write">>)
                      /\ held' = held \cup {"bio"}
                      /\ Fail("BufferIO", "BIO_write() failed")
       ELSE /\ ans' = [ans EXCEPT !["BIO_new"] = bio]
            /\ calls' = Call("BufferIO", <<"BIO_s_mem", "BIO_new">>)
            /\ held' = held
            /\ Fail("BufferIO", "BIO_new(BIO_s_mem()) failed")
  /\ UNCHANGED <<loopVars, lookup, history>>

\* ---- Test 7: SSL context creation ----------------------------------------
ContextLifecycleCheck ==
  /\ pc = "ContextLifecycle"
  /\ \E ssl_ctx \in Answers("SSL_CTX_new") :
       /\ ans' = [ans EXCEPT !["SSL_CTX_new"] = ssl_ctx]
       /\ IF ssl_ctx # "fail"
          THEN /\ calls' = Call("ContextLifecycle",
                    <<"TLS_client_method", "SSL_CTX_new", "SSL_CTX_get_ssl_method",
                      "SSL_CTX_free">>)
               /\ held' = (held \cup {"ssl_ctx"}) \ {"ssl_ctx"}
               /\ Pass("ContextLifecycle", "SSL_CTX_free() successful", "MemoryManagement")
          ELSE /\ calls' = Call("ContextLifecycle",
                    <<"TLS_client_method", "SSL_CTX_new">>)
               /\ held' = held
               /\ Fail("ContextLifecycle", "SSL_CTX_new(TLS_client_method()) failed")
  /\ UNCHANGED <<loopVars, lookup, history>>

\* ---- Test 8: memory management -------------------------------------------
\* mutant: a null context is tolerated, as in Test 5
MemoryManagementCheckPermissive ==
  /\ pc = "MemoryManagement"
  /\ \E md_ctx \in Answers("EVP_MD_CTX_new@8") :
       /\ ans' = [ans EXCEPT !["EVP_MD_CTX_new@8"] = md_ctx]
       /\ IF md_ctx # "fail"
          THEN /\ calls' = Call("MemoryManagement",
                    <<"EVP_MD_CTX_new", "EVP_MD_CTX_free">>)
               /\ Pass("MemoryManagement", "EVP_MD_CTX_free() successful",
                       "AlgorithmAvailability")
          ELSE /\ calls' = Call("MemoryManagement", <<"EVP_MD_CTX_new">>)
               /\ Pass("MemoryManagement", "EVP_MD_CTX_new() failed",
                       "AlgorithmAvailability")
  /\ held' = held
  /\ UNCHANGED <<loopVars, lookup, history>>

MemoryManagementCheck ==
  /\ pc = "MemoryManagement"
  /\ \E md_ctx \in Answers("EVP_MD_CTX_new@8") :
       /\ ans' = [ans EXCEPT !["EVP_MD_CTX_new@8"] = md_ctx]
       /\ IF md_ctx # "fail"
          THEN /\ calls' = Call("MemoryManagement",
                    <<"EVP_MD_CTX_new", "EVP_MD_CTX_free">>)
               /\ held' = (held \cup {"md_ctx"}) \ {"md_ctx"}
               /\ Pass("MemoryManagement", "EVP_MD_CTX_free() successful",
                       "AlgorithmAvailability")
          ELSE /\ calls' = Call("MemoryManagement", <<"EVP_MD_CTX_new">>)
               /\ held' = held
               /\ Fail("MemoryManagement", "EVP_MD_CTX_new() failed")
  /\ UNCHANGED <<loopVars, lookup, history>>

\* ---- Test 9: algorithm availability --------------------------------------
AlgorithmAvailabilityBegin ==
  /\ pc = "AlgorithmAvailability"
  /\ available_count' = 0
  /\ i' = 0
  /\ algStatus' = <<>>
  /\ pc' = "AlgLoop"
  /\ UNCHANGED <<results, exitCode, banner, detail, held, calls,
                 provider, history>>

\* mutant: a name that neither lookup knows ends the run
AlgStepStrict ==
  /\ pc = "AlgLoop"
  /\ i < NumAlgorithms
  /\ \E d \in DigestAnswers(i + 1) :
       IF d = "ok"
       THEN /\ lookup' = [lookup EXCEPT ![i + 1].digest = d]
            /\ calls' = Call("AlgorithmAvailability", <<"EVP_get_digestbyname">>)
            /\ algStatus' = Append(algStatus, [name |-> Algorithms[i + 1], status |-> "available"])
            /\ available_count' = available_count + 1
            /\ i' = i + 1
            /\ UNCHANGED <<pc, results, exitCode, banner, detail>>
       ELSE \E c \in CipherAnswers(i + 1) :
            /\ lookup' = [lookup EXCEPT ![i + 1].digest = d, ![i + 1].cipher = c]
            /\ calls' = Call("AlgorithmAvailability",
                 <<"EVP_get_digestbyname", "EVP_get_cipherbyname">>)
            /\ i' = i + 1
            /\ IF c = "ok"
               THEN /\ algStatus' = Append(algStatus,
                         [name |-> Algorithms[i + 1], status |-> "available"])
                    /\ available_count' = available_count + 1
                    /\ UNCHANGED <<pc, results, exitCode, banner, detail>>
               ELSE /\ algStatus' = Append(algStatus,
                         [name |-> Algorithms[i + 1], status |-> "not available"])
                    /\ available_count' = available_count
                    /\ Fail("AlgorithmAvailability", "algorithm not available")
  /\ UNCHANGED <<held, ans, history>>

\* one iteration of the for loop; || does not evaluate the cipher lookup when
\* the digest lookup returned a handle
AlgStep ==
  /\ pc = "AlgLoop"
  /\ i < NumAlgorithms
  /\ \E d \in DigestAnswers(i + 1) :
       IF d = "ok"
       THEN /\ lookup' = [lookup EXCEPT ![i + 1].digest = d]
            /\ calls' = Call("AlgorithmAvailability", <<"EVP_get_digestbyname">>)
            /\ algStatus' = Append(algStatus, [name |-> Algorithms[i + 1], status |-> "available"])
            /\ available_count' = available_count + 1
       ELSE \E c \in CipherAnswers(i + 1) :
            /\ lookup' = [lookup EXCEPT ![i + 1].digest = d, ![i + 1].cipher = c]
            /\ calls' = Call("AlgorithmAvailability",
                 <<"EVP_get_digestbyname", "EVP_get_cipherbyname">>)
            /\ IF c = "ok"
               THEN /\ algStatus' = Append(algStatus,
                         [name |-> Algorithms[i + 1], status |-> "available"])
                    /\ available_count' = available_count + 1
               ELSE /\ algStatus' = Append(algStatus,
                         [name |-> Algorithms[i + 1], status |-> "not available"])
                    /\ available_count' = available_count
  /\ i' = i + 1
  /\ UNCHANGED <<pc, results, exitCode, banner, detail, held, ans, history>>

\* the "%d/%zu algorithms available" line
Summary(count) ==
  ToString(count) \o "/" \o ToString(NumAlgorithms) \o " algorithms available"

AlgSummary ==
  /\ pc = "AlgLoop"
  /\ ~(i < NumAlgorithms)
  /\ Pass("AlgorithmAvailability", Summary(available_count), "Config")
  /\ UNCHANGED <<held, calls, loopVars, provider, history>>

\* ---- Test 10: configuration ----------------------------------------------
\* at the two sites of this block "ok" stands for a non-null OPENSSL_CONF and
\* for FIPS_mode() == 1, "fail" for NULL and for any other value
ConfigDetail(conf_file, fips) ==
  (IF conf_file # "fail" THEN "OPENSSL_CONF set" ELSE "OPENSSL_CONF not set")
    \o ", " \o (IF fips = "ok" THEN "FIPS mode enabled" ELSE "FIPS mode disabled")

\* mutant: a disabled FIPS mode is reported as a failure
ConfigCheckFipsRequired ==
  /\ pc = "Config"
  /\ \E conf_file \in Answers("OPENSSL_CONF"), fips \in Answers("FIPS_mode") :
       /\ ans' = [ans EXCEPT !["OPENSSL_CONF"] = conf_file, !["FIPS_mode"] = fips]
       /\ calls' = Call("Config", <<"FIPS_mode">>)
       /\ IF fips = "ok"
          THEN Pass("Config", ConfigDetail(conf_file, fips), "Cleanup")
          ELSE Fail("Config", ConfigDetail(conf_file, fips))
  /\ UNCHANGED <<held, loopVars, lookup, history>>

ConfigCheck ==
  /\ pc = "Config"
  /\ \E conf_file \in Answers("OPENSSL_CONF"), fips \in Answers("FIPS_mode") :
       /\ ans' = [ans EXCEPT !["OPENSSL_CONF"] = conf_file, !["FIPS_mode"] = fips]
       /\ calls' = Call("Config", <<"FIPS_mode">>)
       /\ Pass("Config", ConfigDetail(conf_file, fips), "Cleanup")
  /\ UNCHANGED <<held, loopVars, lookup, history>>

\* ---- Test 11: cleanup, banner, return 0 ----------------------------------
CleanupCheck ==
  /\ pc = "Cleanup"
  /\ calls' = Call("Cleanup", <<"EVP_cleanup", "ERR_free_strings">>)
  /\ results' = Append(results, Result("Cleanup", "Pass"))
  /\ detail' = "OpenSSL cleanup completed"
  /\ banner' = TRUE
  /\ exitCode' = 0
  /\ pc' = "done"
  /\ UNCHANGED <<held, loopVars, provider, history>>

\* ---- a second execution of the program against the same library ----------
\* a new process starts from main() again; what the library answers at each
\* site is kept, what the previous execution reported is remembered
Rerun ==
  /\ pc = "done"
  /\ run = 1
  /\ run' = run + 1
  /\ results1' = results
  /\ exit1' = exitCode
  /\ pc' = "Info"
  /\ results' = <<>>
  /\ exitCode' = -1
  /\ banner' = FALSE
  /\ held' = {}
  /\ calls' = NoCalls
  /\ detail' = ""
  /\ i' = 0
  /\ available_count' = 0
  /\ algStatus' = <<>>
  /\ UNCHANGED provider

Next ==
  \/ InfoCheck
  \/ InitCheck
  \/ DigestCheck
  \/ RandomCheck
  \/ ErrorHandlingCheck
  \/ BufferIOCheck
  \/ ContextLifecycleCheck
  \/ MemoryManagementCheck
  \/ AlgorithmAvailabilityBegin
  \/ AlgStep
  \/ AlgSummary
  \/ ConfigCheck
  \/ CleanupCheck

Spec == Init /\ [][Next]_vars

NextTwice == Next \/ Rerun

SpecTwice == Init /\ [][NextTwice]_vars

\* ==== properties ==========================================================
Categories(r) == [k \in 1..Len(r) |-> r[k].category]

HasFail(r) == \E k \in 1..Len(r) : r[k].status = "Fail"

AllPass(r) == \A k \in 1..Len(r) : r[k].status = "Pass"

\* the call sites whose failure branch is a return 1
RequiredSites ==
  {"SSL_library_init", "SSL_load_error_strings", "OpenSSL_add_all_algorithms",
   "EVP_sha256", "RAND_bytes", "BIO_new", "BIO_write", "SSL_CTX_new",
   "EVP_MD_CTX_new@8"}

\* the block (0-indexed position) a required call site belongs to
SiteBlock(site) ==
  CASE site \in {"SSL_library_init", "SSL_load_error_strings",
                 "OpenSSL_add_all_algorithms"} -> Position("Init")
    [] site = "EVP_sha256" -> Position("Digest")
    [] site = "RAND_bytes" -> Position("Random")
    [] site \in {"BIO_new", "BIO_write"} -> Position("BufferIO")
    [] site = "SSL_CTX_new" -> Position("ContextLifecycle")
    [] site = "EVP_MD_CTX_new@8" -> Position("MemoryManagement")

\* every call made so far, as <<block, index in the block's log>>
CallIds == UNION {{<<p, k>> : k \in 1..Len(calls[p])} : p \in DOMAIN calls}

OpOf(id) == calls[id[1]][id[2]]

Before(a, b) == a[1] < b[1] \/ (a[1] = b[1] /\ a[2] < b[2])

Occurrences(op) == Cardinality({id \in CallIds : OpOf(id) = op})

\* C1 (fail-fast): when a required call of the block at position p fails, the
\* finished run reports exactly the blocks 0..p, the blocks before p as Pass
\* and block p as Fail, returns 1 without the success banner, and no block
\* after p has made any library call.
C1_FailFast ==
  \A s \in RequiredSites :
    (ans[s] = "fail" /\ pc = "done") =>
      LET p == SiteBlock(s) IN
        /\ Len(results) = p + 1
        /\ Categories(results) = SubSeq(Order, 1, p + 1)
        /\ \A k \in 1..p : results[k].status = "Pass"
        /\ results[p + 1].status = "Fail"
        /\ exitCode = 1
        /\ ~banner
        /\ \A q \in (p + 1)..(Len(Order) - 1) : calls[q] = <<>>

\* a null digest lookup: the run ended at the Digest block, before Random
C1_Witness ==
  /\ pc = "done"
  /\ ans["EVP_sha256"] = "fail"
  /\ Len(results) = 3
  /\ exitCode = 1

\* C2: a finished run in which no required call failed (absent algorithms
\* and a null context in the ErrorHandling block do not count) reports all
\* eleven blocks as Pass, prints the banner and returns 0; a finished run
\* returns 0 exactly when no block is reported Fail, and 1 otherwise.
C2_PassExitZero ==
  pc = "done" =>
    /\ (\A s \in RequiredSites : ans[s] # "fail") =>
         /\ Categories(results) = Order
         /\ AllPass(results)
         /\ exitCode = 0
         /\ banner
    /\ ~HasFail(results) => (exitCode = 0 /\ Len(results) = Len(Order))
    /\ exitCode \in {0, 1}
    /\ exitCode = 1 => HasFail(results)
    /\ banner <=> exitCode = 0

\* a finished run that returned 0 although the ErrorHandling context was null
\* and some name was unknown to both lookups
C2_Witness ==
  /\ pc = "done"
  /\ exitCode = 0
  /\ ans["EVP_MD_CTX_new@5"] = "fail"
  /\ \E n \in 1..NumAlgorithms : lookup[n].digest = "fail" /\ lookup[n].cipher = "fail"

\* C3: no library object is held when a block has ended, whatever its
\* outcome, and so none is held when main() returns.
C3_NoLeak == held = {}

\* C4: when main() has returned, the library cleanup calls have been made
\* exactly once.
C4_CleanupOnce ==
  pc = "done" =>
    /\ Occurrences("EVP_cleanup") = 1
    /\ Occurrences("ERR_free_strings") = 1

\* C5: the algorithm loop never fails the run: while it runs the exit code
\* is untouched, a name is printed as available exactly when the digest or
\* the cipher lookup returned a handle, the counter equals the number of
\* names printed as available, and once the loop is over all eight names
\* have a line, the block is Pass, its summary shows counter/8 and control
\* is at the Config block.
C5_Availability ==
  LET classified == {n \in 1..Len(algStatus) : algStatus[n].status = "available"} IN
    /\ \A n \in 1..Len(algStatus) :
         /\ algStatus[n].name = Algorithms[n]
         /\ algStatus[n].status \in {"available", "not available"}
         /\ n \in classified <=> (lookup[n].digest = "ok" \/ lookup[n].cipher = "ok")
    /\ available_count = Cardinality(classified)
    /\ pc = "AlgLoop" => (exitCode = -1 /\ Len(algStatus) = i /\ Len(results) = 8)
    /\ Len(results) >= 9 =>
         /\ results[9] = Result("AlgorithmAvailability", "Pass")
         /\ Len(algStatus) = NumAlgorithms
    /\ Len(results) = 9 =>
         /\ pc = "Config"
         /\ exitCode = -1
         /\ detail = Summary(Cardinality(classified))

\* three of the eight names absent: five available and exit code 0
C5_Witness ==
  /\ pc = "done"
  /\ exitCode = 0
  /\ available_count = 5
  /\ Cardinality({n \in 1..NumAlgorithms :
        lookup[n].digest = "fail" /\ lookup[n].cipher = "fail"}) = 3

\* C6: the ErrorHandling block is Pass whether EVP_MD_CTX_new returned a
\* handle or null, with a detail line that tells the two apart; after it the
\* run is at the BufferIO block with no exit code set; and a run that
\* returns 1 had a required call fail, never this allocation alone.
C6_Permissive ==
  /\ Len(results) >= 5 =>
       /\ results[5] = Result("ErrorHandling", "Pass")
       /\ ans["EVP_MD_CTX_new@5"] \in {"ok", "fail"}
  /\ Len(results) = 5 =>
       /\ pc = "BufferIO"
       /\ exitCode = -1
       /\ detail = IF ans["EVP_MD_CTX_new@5"] = "fail"
                   THEN "Error handling working (EVP_MD_CTX_new failed as expected)"
                   ELSE "EVP_MD_CTX operations successful"
  /\ (pc = "done" /\ exitCode = 1) => \E s \in RequiredSites : ans[s] = "fail"

\* the allocation returned null and the run still finished with exit code 0
C6_Witness ==
  /\ pc = "done"
  /\ exitCode = 0
  /\ ans["EVP_MD_CTX_new@5"] = "fail"
  /\ ans["EVP_MD_CTX_new@8"] = "ok"

\* C7: SSL_library_init is called exactly once and before every other
\* library call (the version queries of the Info block included); when
\* main() has returned the teardown calls were made exactly once; and no
\* other library call follows a teardown call.
C7_Lifecycle ==
  /\ Occurrences("SSL_library_init") <= 1
  /\ \A id \in CallIds :
       OpOf(id) # "SSL_library_init" =>
         \E first \in CallIds : OpOf(first) = "SSL_library_init" /\ Before(first, id)
  /\ pc = "done" => Occurrences("EVP_cleanup") = 1
  /\ \A id \in CallIds :
       OpOf(id) \in {"EVP_cleanup", "ERR_free_strings"} =>
         \A later \in CallIds :
           Before(id, later) => OpOf(later) \in {"EVP_cleanup", "ERR_free_strings"}

\* C8: the Config block is report-only: whatever OPENSSL_CONF and FIPS_mode()
\* are, the step of the block appends a Pass line, moves to Cleanup and
\* leaves the exit code, the banner, the earlier lines and the held objects
\* as they were; a run that got past it ends with every block Pass and
\* exit code 0.
C8_ConfigReportOnly ==
  /\ [](Len(results) >= 10 =>
          /\ results[10] = Result("Config", "Pass")
          /\ pc = "done" => (exitCode = 0 /\ AllPass(results) /\ Len(results) = 11))
  /\ [][pc = "Config" =>
          /\ pc' = "Cleanup"
          /\ results' = Append(results, Result("Config", "Pass"))
          /\ exitCode' = exitCode
          /\ banner' = banner
          /\ held' = held
          /\ UNCHANGED algStatus
          /\ UNCHANGED available_count]_vars

\* OPENSSL_CONF not set and FIPS mode disabled: exit code 0
C8_Witness ==
  /\ pc = "done"
  /\ exitCode = 0
  /\ ans["OPENSSL_CONF"] = "fail"
  /\ ans["FIPS_mode"] = "fail"

\* C9 (idempotence): in a second execution against a library that answers
\* every call site as it did in the first, the lines reported so far are a
\* prefix of the first execution's lines, and when it has finished the
\* sequence of (block, status) lines and the exit code equal the first's.
C9_Idempotent ==
  run = 2 =>
    /\ Len(results) <= Len(results1)
    /\ results = SubSeq(results1, 1, Len(results))
    /\ pc = "done" => (results = results1 /\ exitCode = exit1)

\* a second execution that finished all eleven blocks
C9_Witness ==
  /\ run = 2
  /\ pc = "done"
  /\ Len(results) = 11
  /\ exit1 = 0

\* C10: a null EVP_MD_CTX_new is Pass in the ErrorHandling block and the run
\* goes on to BufferIO, but in the memory-management block it is Fail: the
\* run ends there with exit code 1, eight lines, and no call made by the
\* AlgorithmAvailability, Config and Cleanup blocks.
C10_ByPosition ==
  /\ (ans["EVP_MD_CTX_new@5"] = "fail" /\ Len(results) >= 5) =>
       /\ results[5].status = "Pass"
       /\ Len(results) = 5 => (pc = "BufferIO" /\ exitCode = -1)
  /\ (ans["EVP_MD_CTX_new@8"] = "fail" /\ pc = "done") =>
       /\ Len(results) = 8
       /\ results[8] = Result("MemoryManagement", "Fail")
       /\ exitCode = 1
       /\ algStatus = <<>>
       /\ \A q \in 8..10 : calls[q] = <<>>

\* EVP_MD_CTX_new returned null both times: the run reached the
\* memory-management block and returned 1 there
C10_Witness ==
  /\ pc = "done"
  /\ ans["EVP_MD_CTX_new@5"] = "fail"
  /\ ans["EVP_MD_CTX_new@8"] = "fail"
  /\ exitCode = 1
  /\ Len(results) = 8
====
